---- MODULE Spec2Model ----
(***************************************************************************)
(* Liberty Unleashed server directory (cmd/lusd/main.go): the ServerList   *)
(* registry.  Reporter goroutines call Report, reader goroutines call      *)
(* GetActive, and one goroutine runs cleanupLoop; all three share Entries  *)
(* under the ServerList mutex.                                             *)
(*                                                                         *)
(* Time is counted in ticks, TicksPerSecond of them to the second, so that *)
(* the truncation done by time.Time.Unix() is part of the model.  Strings  *)
(* are sequences of byte values, compared as Go compares strings.          *)
(***************************************************************************)
EXTENDS Integers, Sequences, FiniteSets, TLC

\* ------------------------------------------------------------- bounds
\* The clock stops at MaxTime ticks.
MaxTime == 4
\* Clock resolution: ticks per second.
TicksPerSecond == 2
\* The HTTP server is followed until the middleware has let this many
\* requests through.
MaxRequests == 2

\* ------------------------------------------------------------ strings
\* "127.0.0.1" and "192.168.1.100" as byte sequences.
IpA == <<49, 50, 55, 46, 48, 46, 48, 46, 49>>
IpC == <<49, 57, 50, 46, 49, 54, 56, 46, 49, 46, 49, 48, 48>>

\* The decimal digits of n >= 0.
RECURSIVE Digits(_)
Digits(n) ==
    IF n < 10 THEN <<48 + n>> ELSE Digits(n \div 10) \o <<48 + (n % 10)>>

\* The verb %d of fmt.Sprintf: a minus sign, then the digits.
FormatInt(n) ==
    IF n < 0 THEN <<45>> \o Digits(0 - n) ELSE Digits(n)

\* fmt.Sprintf("%s:%d", ip, port)
Sprintf(ip, port) ==
    ip \o <<58>> \o FormatInt(port)

\* Go's < on strings: bytewise, a proper prefix is smaller.
RECURSIVE StrLess(_, _)
StrLess(a, b) ==
    IF b = <<>> THEN FALSE
    ELSE IF a = <<>> THEN TRUE
    ELSE IF Head(a) # Head(b) THEN Head(a) < Head(b)
    ELSE StrLess(Tail(a), Tail(b))

\* list with x put before the first element that is not smaller than x.
RECURSIVE Insert(_, _)
Insert(x, list) ==
    IF list = <<>> THEN <<x>>
    ELSE IF StrLess(Head(list), x) THEN <<Head(list)>> \o Insert(x, Tail(list))
    ELSE <<x>> \o list

\* The mutant of SortStrings: the list is returned as it was built.
SortStringsNoSort(list) ==
    list

\* sort.Strings(list): the elements of list in increasing order.
RECURSIVE SortStrings(_)
SortStrings(list) ==
    IF list = <<>> THEN <<>> ELSE Insert(Head(list), SortStrings(Tail(list)))

\* time.Time.Unix(): whole seconds, rounded down.
Unix(t) ==
    t \div TicksPerSecond

Range(s) ==
    {s[i] : i \in 1..Len(s)}

\* The sequences that list every element of the set S once, in any order
\* (the orders in which a range over a Go map may visit its keys).
RECURSIVE Orders(_)
Orders(S) ==
    IF S = {} THEN {<<>>}
    ELSE UNION {{<<x>> \o rest : rest \in Orders(S \ {x})} : x \in S}

\* ------------------------------------------------------ configuration
\* The arguments Report is called with: (ip, port).
ReportArgs ==
    {<<IpA, 2301>>, <<IpA, 10000>>}

\* "127.0.0.1:2301", "127.0.0.1:10000" and "192.168.1.100:1234".
AddrA == IpA \o <<58, 50, 51, 48, 49>>
AddrA2 == IpA \o <<58, 49, 48, 48, 48, 48>>
AddrC == IpC \o <<58, 49, 50, 51, 52>>

\* Every address that can be a key of Entries or a member of a result.
Addrs ==
    {AddrA, AddrA2, AddrC}

\* Config.StaleTimeout, in ticks: one second, and one and a half.
StaleTimeouts ==
    {TicksPerSecond, TicksPerSecond + 1}

\* Config.OfficialServers: none; or one address listed twice and one that
\* is also reported.
OfficialLists ==
    {<<>>, <<AddrC, AddrA, AddrC>>}

Reporters == {"r1", "r2"}
Readers == {"g1"}
Sweeper == "cleanup"
NoOne == "none"
Never == 0 - 1

VARIABLES
    now,         \* the wall clock, in ticks
    Entries,     \* ServerList.Entries: address -> Unix seconds
    Config,      \* ServerList.Config: [StaleTimeout, OfficialServers]
    mutex,       \* the holder of ServerList.Mutex, or NoOne
    rep,         \* per reporter: pc and addr
    rd,          \* per reader: pc and the locals of GetActive
    sw,          \* cleanupLoop: pc, cutoff, the keys visited in this pass,
                 \* and (history) the map as the pass found it
    lastReport,  \* history: address -> tick at which its last Report wrote
    life,        \* history: address -> "never", "new", "refreshed" or "swept"
    raced,       \* history: in this tick a Report wrote while another Report,
                 \* for a different address, was waiting for the lock
    rateLimitMap, \* main's rateLimitMap: client ip -> the minutes of its requests
    last,        \* observation: the last HTTP request and the response to it
    admitted,    \* history: client ip -> the Unix seconds at which the
                 \* middleware let a request of that client through
    twin,        \* one request sent from two clients to the same server
                 \* state, and the two statuses
    mainPc,      \* main: "serve" (waiting at <-quit), "shutdown" (in
                 \* server.Shutdown) or "exit" (returned: the process is gone)
    file,        \* the file system at the configuration path
    environ,     \* the process environment: variable name -> value
    loaded       \* observation: the last call of loadConfig and what it returned

\* The state of main's HTTP front, and the state around loadConfig.
frontVars == <<rateLimitMap, last, admitted, twin, mainPc>>
loadVars == <<file, environ, loaded>>

vars ==
    <<now, Entries, Config, mutex, rep, rd, sw, lastReport, life, raced,
      frontVars, loadVars>>

\* ----------------------------------------------------------- the lock
\* The mutant of LockFree: the lock is taken whether or not it is held.
LockFreeAlways(p) ==
    TRUE

\* The mutant of LockFree: the mutex was left locked, Lock never returns.
LockFreeNever(p) ==
    FALSE

\* The mutant of LockFree: GetActive does not wait for the lock.
LockFreeForReaders(p) ==
    mutex = NoOne \/ p \in Readers

\* The mutant of LockFree: Report does not wait for the lock.
LockFreeForReporters(p) ==
    mutex = NoOne \/ p \in Reporters

\* sync.Mutex.Lock returns for p only when nobody holds the mutex.
LockFree(p) ==
    mutex = NoOne

\* --------------------------------------------------------------- init
EmptyMap == [a \in {} |-> 0]

RepIdle == [pc |-> "idle", addr |-> <<>>]
RdIdle ==
    [pc |-> "idle", cutoff |-> 0, visited |-> {}, activeMap |-> {},
     list |-> <<>>, queryAt |-> Never, atLock |-> EmptyMap]
SwIdle == [pc |-> "wait", cutoff |-> 0, visited |-> {}, atLock |-> EmptyMap]

\* No request handled yet; no configuration file looked at, loadConfig not
\* called.
NoRequest == [endpoint |-> "none"]
NoTwin == [asked |-> FALSE]
NoFile == [state |-> "unseen"]
NotLoaded == [called |-> FALSE]

\* Nothing has gone through the HTTP front, in a process with no environment
\* variable set.
FrontIdle ==
    /\ rateLimitMap = EmptyMap
    /\ last = NoRequest
    /\ admitted = EmptyMap
    /\ twin = NoTwin
    /\ mainPc = "serve"

LoadIdle ==
    /\ file = NoFile
    /\ environ = EmptyMap
    /\ loaded = NotLoaded

\* NewServerList(cfg): an empty map, the configuration, cleanupLoop started.
Init ==
    /\ now = 0
    /\ Entries = EmptyMap
    /\ Config \in [StaleTimeout : StaleTimeouts, OfficialServers : OfficialLists]
    /\ mutex = NoOne
    /\ rep = [r \in Reporters |-> RepIdle]
    /\ rd = [g \in Readers |-> RdIdle]
    /\ sw = SwIdle
    /\ lastReport = [a \in Addrs |-> Never]
    /\ life = [a \in Addrs |-> "never"]
    /\ raced = FALSE
    /\ FrontIdle
    /\ LoadIdle

\* Time passes: the clock moves on by one tick.
Tick ==
    /\ now < MaxTime
    /\ now' = now + 1
    /\ raced' = FALSE
    /\ UNCHANGED <<Entries, Config, mutex, rep, rd, sw, lastReport, life>>
    /\ UNCHANGED <<frontVars, loadVars>>

\* ------------------------------------------------------------- Report
\* Report is called: addr is formatted, the goroutine reaches s.Lock().
ReportCall(r) ==
    /\ rep[r].pc = "idle"
    /\ \E arg \in ReportArgs :
         rep' = [rep EXCEPT ![r] =
                  [pc |-> "lock", addr |-> Sprintf(arg[1], arg[2])]]
    /\ UNCHANGED <<now, Entries, Config, mutex, rd, sw, lastReport, life, raced>>
    /\ UNCHANGED <<frontVars, loadVars>>

\* s.Lock() returns.
ReportLock(r) ==
    /\ rep[r].pc = "lock"
    /\ LockFree(r)
    /\ mutex' = r
    /\ rep' = [rep EXCEPT ![r].pc = "write"]
    /\ UNCHANGED <<now, Entries, Config, rd, sw, lastReport, life, raced>>
    /\ UNCHANGED <<frontVars, loadVars>>

\* The mutant of Store: an address already present keeps its timestamp.
StoreIfAbsent(m, addr, ts) ==
    [a \in DOMAIN m \cup {addr} |-> IF a \in DOMAIN m THEN m[a] ELSE ts]

\* The mutant of Store: the write replaces the map, the other keys are lost.
StoreAlone(m, addr, ts) ==
    [a \in {addr} |-> ts]

\* The mutant of Store: the write also drops the entries older than ts.
StoreEvicting(m, addr, ts) ==
    [a \in {k \in DOMAIN m : m[k] >= ts} \cup {addr} |->
        IF a = addr THEN ts ELSE m[a]]

\* The mutant of Store: the timestamp is kept in a counter that wraps around.
StoreWrapped(m, addr, ts) ==
    [a \in DOMAIN m \cup {addr} |-> IF a = addr THEN ts % 2 ELSE m[a]]

\* The mutant of Store: the timestamp written is one second ahead.
StoreAhead(m, addr, ts) ==
    [a \in DOMAIN m \cup {addr} |-> IF a = addr THEN ts + 1 ELSE m[a]]

\* The mutant of Store: the write stamps every entry of the map.
StoreStampingAll(m, addr, ts) ==
    [a \in DOMAIN m \cup {addr} |-> ts]

\* m[addr] = ts on a Go map.
Store(m, addr, ts) ==
    [a \in DOMAIN m \cup {addr} |-> IF a = addr THEN ts ELSE m[a]]

\* s.Entries[addr] = time.Now().Unix(), then the deferred s.Unlock().
ReportWrite(r) ==
    /\ rep[r].pc = "write"
    /\ Entries' = Store(Entries, rep[r].addr, Unix(now))
    /\ mutex' = IF mutex = r THEN NoOne ELSE mutex
    /\ rep' = [rep EXCEPT ![r] = RepIdle]
    /\ lastReport' = [lastReport EXCEPT ![rep[r].addr] = now]
    /\ life' = [life EXCEPT ![rep[r].addr] =
                  IF rep[r].addr \in DOMAIN Entries
                     /\ (life[rep[r].addr] = "refreshed"
                         \/ Entries[rep[r].addr] < Unix(now))
                  THEN "refreshed" ELSE "new"]
    /\ raced' = (raced \/ \E q \in Reporters \ {r} :
                             rep[q].pc = "lock" /\ rep[q].addr # rep[r].addr)
    /\ UNCHANGED <<now, Config, rd, sw>>
    /\ UNCHANGED <<frontVars, loadVars>>

\* ---------------------------------------------------------- GetActive
\* cutoff := time.Now().Add(-s.Config.StaleTimeout).Unix(), before s.Lock().
GetActiveCall(g) ==
    /\ rd[g].pc = "idle"
    /\ rd' = [rd EXCEPT ![g] =
               [RdIdle EXCEPT !.pc = "lock",
                              !.cutoff = Unix(now - Config.StaleTimeout),
                              !.queryAt = now]]
    /\ UNCHANGED <<now, Entries, Config, mutex, rep, sw, lastReport, life, raced>>
    /\ UNCHANGED <<frontVars, loadVars>>

\* s.Lock() returns.
GetActiveLock(g) ==
    /\ rd[g].pc = "lock"
    /\ LockFree(g)
    /\ mutex' = g
    /\ rd' = [rd EXCEPT ![g].pc = "range", ![g].atLock = Entries]
    /\ UNCHANGED <<now, Entries, Config, rep, sw, lastReport, life, raced>>
    /\ UNCHANGED <<frontVars, loadVars>>

\* The mutant of Keep: an entry is kept only when it is newer than the cutoff.
KeepNewer(ts, cutoff) ==
    ts > cutoff

\* The mutant of Keep: every entry is kept, stale or not.
KeepAll(ts, cutoff) ==
    TRUE

\* The test of GetActive's loop: ts >= cutoff.
Keep(ts, cutoff) ==
    ts >= cutoff

\* One iteration of "for addr, ts := range s.Entries": any key not yet visited.
GetActiveRange(g) ==
    /\ rd[g].pc = "range"
    /\ \E addr \in DOMAIN Entries \ rd[g].visited :
         rd' = [rd EXCEPT
                  ![g].visited = @ \cup {addr},
                  ![g].activeMap =
                      IF Keep(Entries[addr], rd[g].cutoff) THEN @ \cup {addr} ELSE @]
    /\ UNCHANGED <<now, Entries, Config, mutex, rep, sw, lastReport, life, raced>>
    /\ UNCHANGED <<frontVars, loadVars>>

\* The mutant of WithOfficial: the official servers are not added.
WithoutOfficial(active, official) ==
    active

\* "for _, addr := range s.Config.OfficialServers { activeMap[addr] = true }"
WithOfficial(active, official) ==
    active \cup Range(official)

\* The mutant of Lists: the official list is appended to the kept addresses.
ListsAppended(active, official) ==
    {order \o official : order \in Orders(active)}

\* The lists "for addr := range activeMap { list = append(list, addr) }" can
\* build, activeMap holding the kept addresses and the official ones.
Lists(active, official) ==
    Orders(WithOfficial(active, official))

\* The first loop has visited every key: the official servers are added, list
\* is built in the map's iteration order, then sort.Strings(list).
GetActiveBuild(g) ==
    /\ rd[g].pc = "range"
    /\ DOMAIN Entries \subseteq rd[g].visited
    /\ \E order \in Lists(rd[g].activeMap, Config.OfficialServers) :
         rd' = [rd EXCEPT ![g].pc = "ret", ![g].list = SortStrings(order)]
    /\ UNCHANGED <<now, Entries, Config, mutex, rep, sw, lastReport, life, raced>>
    /\ UNCHANGED <<frontVars, loadVars>>

\* return list, and the deferred s.Unlock().
GetActiveReturn(g) ==
    /\ rd[g].pc = "ret"
    /\ mutex' = IF mutex = g THEN NoOne ELSE mutex
    /\ rd' = [rd EXCEPT ![g] = RdIdle]
    /\ UNCHANGED <<now, Entries, Config, rep, sw, lastReport, life, raced>>
    /\ UNCHANGED <<frontVars, loadVars>>

\* -------------------------------------------------------- cleanupLoop
\* The ticker delivers a tick; cutoff is computed before s.Lock().  The
\* ticker's period is left open: a pass may start at any clock value, which
\* includes every schedule the one-minute ticker can produce.
SweepTick ==
    /\ sw.pc = "wait"
    /\ sw' = [SwIdle EXCEPT !.pc = "lock",
                             !.cutoff = Unix(now - Config.StaleTimeout)]
    /\ UNCHANGED <<now, Entries, Config, mutex, rep, rd, lastReport, life, raced>>
    /\ UNCHANGED <<frontVars, loadVars>>

\* s.Lock() returns.
SweepLock ==
    /\ sw.pc = "lock"
    /\ LockFree(Sweeper)
    /\ mutex' = Sweeper
    /\ sw' = [sw EXCEPT !.pc = "range", !.atLock = Entries]
    /\ UNCHANGED <<now, Entries, Config, rep, rd, lastReport, life, raced>>
    /\ UNCHANGED <<frontVars, loadVars>>

\* The mutant of Stale: the sweep deletes nothing.
StaleNever(ts, cutoff) ==
    FALSE

\* The mutant of Stale: the sweep also deletes an entry at the cutoff.
StaleOrEqual(ts, cutoff) ==
    ts <= cutoff

\* The test of the sweep's loop: ts < cutoff.
Stale(ts, cutoff) ==
    ts < cutoff

\* The mutant of Delete: the timestamp is cleared, the key stays in the map.
DeleteAsZero(m, addr) ==
    [m EXCEPT ![addr] = 0]

\* delete(m, addr) on a Go map.
Delete(m, addr) ==
    [a \in DOMAIN m \ {addr} |-> m[a]]

\* One iteration of the sweep's loop: any key not yet visited.
SweepRange ==
    /\ sw.pc = "range"
    /\ \E addr \in DOMAIN Entries \ sw.visited :
         /\ sw' = [sw EXCEPT !.visited = @ \cup {addr}]
         /\ IF Stale(Entries[addr], sw.cutoff)
            THEN /\ Entries' = Delete(Entries, addr)
                 /\ life' = [life EXCEPT ![addr] = "swept"]
            ELSE UNCHANGED <<Entries, life>>
    /\ UNCHANGED <<now, Config, mutex, rep, rd, lastReport, raced>>
    /\ UNCHANGED <<frontVars, loadVars>>

\* The loop has visited every key: s.Unlock(), and wait for the next tick.
SweepUnlock ==
    /\ sw.pc = "range"
    /\ DOMAIN Entries \subseteq sw.visited
    /\ mutex' = IF mutex = Sweeper THEN NoOne ELSE mutex
    /\ sw' = SwIdle
    /\ UNCHANGED <<now, Entries, Config, rep, rd, lastReport, life, raced>>
    /\ UNCHANGED <<frontVars, loadVars>>

\* ------------------------------------------------------ specification
\* A step of the clock, of a Report made by a goroutine of R, of a GetActive
\* call, or of cleanupLoop.
NextOf(R) ==
    \/ Tick
    \/ \E r \in R : ReportCall(r)
    \/ \E r \in R : ReportLock(r)
    \/ \E r \in R : ReportWrite(r)
    \/ \E g \in Readers : GetActiveCall(g)
    \/ \E g \in Readers : GetActiveLock(g)
    \/ \E g \in Readers : GetActiveRange(g)
    \/ \E g \in Readers : GetActiveBuild(g)
    \/ \E g \in Readers : GetActiveReturn(g)
    \/ SweepTick
    \/ SweepLock
    \/ SweepRange
    \/ SweepUnlock

Next ==
    NextOf(Reporters)

Spec == Init /\ [][Next]_vars

\* Scheduling: the ticker keeps delivering ticks, a goroutine that can run
\* does run, and a goroutine waiting in sync.Mutex.Lock gets the mutex if it
\* keeps being released (the mutex hands over to a starved waiter).
Fairness ==
    /\ WF_vars(SweepTick)
    /\ SF_vars(SweepLock)
    /\ WF_vars(SweepRange)
    /\ WF_vars(SweepUnlock)
    /\ \A r \in Reporters : WF_vars(ReportWrite(r))
    /\ \A g \in Readers :
          WF_vars(GetActiveRange(g) \/ GetActiveBuild(g) \/ GetActiveReturn(g))

\* The server with a stale timeout of one second and one reporting client.
FairInit ==
    Init /\ Config.StaleTimeout = TicksPerSecond

FairNext ==
    NextOf({"r1"})

FairSpec == FairInit /\ [][FairNext]_vars /\ Fairness

\* sync.Mutex hands the lock over to a waiter that has been starved, so a
\* Report or a GetActive call waiting in s.Lock() gets the mutex if it keeps
\* being released.
LockHandover ==
    /\ \A r \in Reporters : SF_vars(ReportLock(r))
    /\ \A g \in Readers : SF_vars(GetActiveLock(g))

\* The server a tick before the clock stops, no call in progress: a stale
\* timeout of one second, no official servers, and one registration made in
\* second 0, which the next tick makes stale.
LiveInit ==
    /\ now = MaxTime - 1
    /\ Entries = [a \in {AddrA2} |-> 0]
    /\ Config = [StaleTimeout |-> TicksPerSecond, OfficialServers |-> <<>>]
    /\ mutex = NoOne
    /\ rep = [r \in Reporters |-> RepIdle]
    /\ rd = [g \in Readers |-> RdIdle]
    /\ sw = SwIdle
    /\ lastReport = [a \in Addrs |-> IF a = AddrA2 THEN 0 ELSE Never]
    /\ life = [a \in Addrs |-> IF a = AddrA2 THEN "new" ELSE "never"]
    /\ raced = FALSE
    /\ FrontIdle
    /\ LoadIdle

\* That server with its two reporting clients, every goroutine scheduled
\* fairly.
LiveSpec == LiveInit /\ [][Next]_vars /\ Fairness /\ LockHandover

\* ------------------------------------------------------------ shutdown
\* signal.Notify delivers SIGINT or SIGTERM: main leaves "<-quit" and calls
\* server.Shutdown(ctx), which closes the listeners.
Signal ==
    /\ mainPc = "serve"
    /\ mainPc' = "shutdown"
    /\ UNCHANGED <<now, Entries, Config, mutex, rep, rd, sw, lastReport, life, raced>>
    /\ UNCHANGED <<rateLimitMap, last, admitted, twin, loadVars>>

\* server.Shutdown returns, when the connections are idle or after its 30
\* seconds, and main returns: the process and its goroutines are gone.
Exit ==
    /\ mainPc = "shutdown"
    /\ mainPc' = "exit"
    /\ UNCHANGED <<now, Entries, Config, mutex, rep, rd, sw, lastReport, life, raced>>
    /\ UNCHANGED <<rateLimitMap, last, admitted, twin, loadVars>>

\* A goroutine takes the step A: the process has not exited.
Running(A) ==
    mainPc # "exit" /\ A

\* The server with one reporting client from its start to the exit of main:
\* a new request is accepted only while the listeners are open, a request in
\* flight is finished, and cleanupLoop, which has no way to be told to stop,
\* runs until the process is gone.
ShutdownNext ==
    \/ Tick
    \/ Signal
    \/ Exit
    \/ mainPc = "serve" /\ ReportCall("r1")
    \/ Running(ReportLock("r1"))
    \/ Running(ReportWrite("r1"))
    \/ \E g \in Readers : mainPc = "serve" /\ GetActiveCall(g)
    \/ \E g \in Readers : Running(GetActiveLock(g))
    \/ \E g \in Readers : Running(GetActiveRange(g))
    \/ \E g \in Readers : Running(GetActiveBuild(g))
    \/ \E g \in Readers : Running(GetActiveReturn(g))
    \/ Running(SweepTick)
    \/ Running(SweepLock)
    \/ Running(SweepRange)
    \/ Running(SweepUnlock)

ShutdownSpec == FairInit /\ [][ShutdownNext]_vars

\* ============================================================ the HTTP front
\* ----------------------------------------------------- parsing of text
\* The index of the first (last) byte c of s, or 0 when s has no byte c.
IndexByte(s, c) ==
    LET at == {i \in 1..Len(s) : s[i] = c} IN
        IF at = {} THEN 0 ELSE CHOOSE i \in at : \A j \in at : i <= j

LastIndexByte(s, c) ==
    LET at == {i \in 1..Len(s) : s[i] = c} IN
        IF at = {} THEN 0 ELSE CHOOSE i \in at : \A j \in at : i >= j

\* strings.Contains(s, sub)
Contains(s, sub) ==
    \E i \in 1..(Len(s) - Len(sub) + 1) : SubSeq(s, i, i + Len(sub) - 1) = sub

\* strings.Split(s, sep) for a separator of one byte.
RECURSIVE Split(_, _)
Split(s, c) ==
    LET i == IndexByte(s, c) IN
        IF i = 0 THEN <<s>>
        ELSE <<SubSeq(s, 1, i - 1)>> \o Split(SubSeq(s, i + 1, Len(s)), c)

\* strings.Join(list, sep)
RECURSIVE Join(_, _)
Join(list, sep) ==
    IF list = <<>> THEN <<>>
    ELSE IF Len(list) = 1 THEN list[1]
    ELSE list[1] \o sep \o Join(Tail(list), sep)

IsDigit(c) == c \in 48..57
IsHex(c) == c \in 48..57 \/ c \in 97..102 \/ c \in 65..70

\* The value of a string of decimal digits.
RECURSIVE DigitsValue(_)
DigitsValue(s) ==
    IF s = <<>> THEN 0
    ELSE 10 * DigitsValue(SubSeq(s, 1, Len(s) - 1)) + (s[Len(s)] - 48)

\* strconv.Atoi(s): an optional sign, then decimal digits and nothing else.
UnsignedPart(s) ==
    IF s # <<>> /\ s[1] \in {43, 45} THEN Tail(s) ELSE s

Atoi(s) ==
    LET digits == UnsignedPart(s) IN
        IF digits # <<>> /\ \A i \in 1..Len(digits) : IsDigit(digits[i])
        THEN [ok |-> TRUE,
              n |-> IF s[1] = 45 THEN 0 - DigitsValue(digits)
                    ELSE DigitsValue(digits)]
        ELSE [ok |-> FALSE, n |-> 0]

\* net.SplitHostPort(hostport): "host:port" or "[host]:port".
SplitFailed == [ok |-> FALSE, host |-> <<>>, port |-> <<>>]

SplitBracketed(hostport, i) ==
    LET end == IndexByte(hostport, 93) IN
        IF end = 0 \/ end + 1 # i THEN SplitFailed
        ELSE IF IndexByte(SubSeq(hostport, 2, Len(hostport)), 91) # 0 THEN SplitFailed
        ELSE IF IndexByte(SubSeq(hostport, end + 1, Len(hostport)), 93) # 0
             THEN SplitFailed
        ELSE [ok |-> TRUE, host |-> SubSeq(hostport, 2, end - 1),
              port |-> SubSeq(hostport, i + 1, Len(hostport))]

SplitPlain(hostport, i) ==
    IF IndexByte(SubSeq(hostport, 1, i - 1), 58) # 0 THEN SplitFailed
    ELSE IF IndexByte(hostport, 91) # 0 \/ IndexByte(hostport, 93) # 0
         THEN SplitFailed
    ELSE [ok |-> TRUE, host |-> SubSeq(hostport, 1, i - 1),
          port |-> SubSeq(hostport, i + 1, Len(hostport))]

SplitHostPort(hostport) ==
    LET i == LastIndexByte(hostport, 58) IN
        IF i = 0 THEN SplitFailed
        ELSE IF hostport[1] = 91 THEN SplitBracketed(hostport, i)
        ELSE SplitPlain(hostport, i)

\* net.ParseIP(s) # nil, for the dotted-decimal form: four fields of one to
\* three digits, none above 255, none with a leading zero.
IsIPv4Field(f) ==
    /\ Len(f) \in 1..3
    /\ \A i \in 1..Len(f) : IsDigit(f[i])
    /\ Len(f) > 1 => f[1] # 48
    /\ DigitsValue(f) <= 255

IsIPv4(s) ==
    LET fields == Split(s, 46) IN
        /\ Len(fields) = 4
        /\ \A i \in 1..4 : IsIPv4Field(fields[i])

\* net.ParseIP(s) # nil, for the IPv6 form with no dotted-decimal tail: groups
\* of one to four hexadecimal digits between colons, eight of them, or fewer
\* with one "::" standing for the missing ones; no zone.
IsIPv6(s) ==
    LET groups == Split(s, 58)
        n == Len(groups)
        gaps == {i \in 1..(Len(s) - 1) : s[i] = 58 /\ s[i + 1] = 58}
        filled == {i \in 1..n : groups[i] # <<>>}
    IN  /\ \A i \in 1..Len(s) : IsHex(s[i]) \/ s[i] = 58
        /\ Cardinality(gaps) <= 1
        /\ \A i \in filled : Len(groups[i]) <= 4
        /\ s # <<>> /\ s[1] = 58 => 1 \in gaps
        /\ s # <<>> /\ s[Len(s)] = 58 => (Len(s) - 1) \in gaps
        /\ IF gaps = {} THEN n = 8 /\ Cardinality(filled) = 8
           ELSE Cardinality(filled) <= 7

ParseIP(s) ==
    IsIPv4(s) \/ IsIPv6(s)

\* ------------------------------------------------- clients and requests
\* "10.0.0.9", "::1" and "fe80::1%eth0" as byte sequences.
IpB == <<49, 48, 46, 48, 46, 48, 46, 57>>
Ip6 == <<58, 58, 49>>
IpZone == <<102, 101, 56, 48, 58, 58, 49, 37, 101, 116, 104, 48>>

\* ":40000", the client's port in r.RemoteAddr.
ClientPort == <<58, 52, 48, 48, 48, 48>>

\* r.RemoteAddr as net/http sets it: "127.0.0.1:40000", "10.0.0.9:40000",
\* "[::1]:40000", "[fe80::1%eth0]:40000", and "@" (a connection that is not
\* TCP, which has no host:port form).
RemoteA == IpA \o ClientPort
RemoteB == IpB \o ClientPort
Remote6 == <<91>> \o Ip6 \o <<93>> \o ClientPort
RemoteZone == <<91>> \o IpZone \o <<93>> \o ClientPort
RemoteUnix == <<64>>

RemoteAddrs ==
    {RemoteA, RemoteB, Remote6, RemoteZone, RemoteUnix}

\* The host part of every RemoteAddr that has one: the keys of rateLimitMap.
ClientIps ==
    {SplitHostPort(ra).host : ra \in {x \in RemoteAddrs : SplitHostPort(x).ok}}

\* The form value "port": absent, "x", "1023", "1024", "65536".
PortFields ==
    {<<>>, <<120>>, <<49, 48, 50, 51>>, <<49, 48, 50, 52>>,
     <<54, 53, 53, 51, 54>>}

Methods == {"POST", "GET"}
UserAgents == {"LU-Server/0.1", "curl/8.0"}

\* A request to /report.php: form is "bad" when r.ParseForm() fails (a body
\* over the limit or not form-encoded), and then there is no port value.
ReportRequests ==
    {r \in [remoteAddr : RemoteAddrs, method : Methods, userAgent : UserAgents,
            form : {"ok", "bad"}, port : PortFields] :
        r.form = "bad" => r.port = <<>>}

\* The configuration of the server behind the HTTP front: a stale timeout of
\* one second, 10.0.0.9 blacklisted, and an official list that names one
\* address twice and is not sorted.
HttpConfig ==
    [StaleTimeout |-> TicksPerSecond,
     OfficialServers |-> <<AddrC, AddrA, AddrC>>,
     AllowedUserAgent |-> "LU-Server/0.1",
     Blacklist |-> {IpB}]

\* net.SplitHostPort, strconv.Atoi and net.ParseIP on the texts that occur
\* in requests, each worked out once.
SplitOf == [ra \in RemoteAddrs |-> SplitHostPort(ra)]
AtoiOf == [p \in PortFields |-> Atoi(p)]
ParseIPOf == [ip \in ClientIps |-> ParseIP(ip)]

\* ------------------------------------------------------- checkRateLimit
maxRequestsPerMinute == 60
SecondsPerMinute == 60

\* minute := time.Now().Unix() / 60
Minute(t) ==
    Unix(t) \div SecondsPerMinute

\* The number of entries of times equal to minute.
CountIn(times, minute) ==
    Cardinality({i \in 1..Len(times) : times[i] = minute})

\* "Remove old entries": the entries of the last two minutes are kept.
Pruned(times, minute) ==
    SelectSeq(times, LAMBDA t : t >= minute - 1)

\* count >= maxRequestsPerMinute
OverLimit(count) ==
    count >= maxRequestsPerMinute

\* The mutant of checkRateLimit: a request over the limit is refused and
\* recorded all the same.
checkRateLimitRecording(m, ip, t) ==
    LET minute == Minute(t)
        newTimes == IF ip \in DOMAIN m THEN Pruned(m[ip], minute) ELSE <<>>
    IN  [ok |-> ~(ip \in DOMAIN m /\ OverLimit(CountIn(newTimes, minute))),
         map |-> [k \in DOMAIN m \cup {ip} |->
                     IF k = ip THEN Append(newTimes, minute) ELSE m[k]]]

\* checkRateLimit(ip) at clock value t on the map m: whether the request is
\* let through, and the map afterwards.
checkRateLimit(m, ip, t) ==
    LET minute == Minute(t)
        newTimes == IF ip \in DOMAIN m THEN Pruned(m[ip], minute) ELSE <<>>
    IN  IF ip \in DOMAIN m /\ OverLimit(CountIn(newTimes, minute))
        THEN [ok |-> FALSE, map |-> [m EXCEPT ![ip] = newTimes]]
        ELSE [ok |-> TRUE,
              map |-> [k \in DOMAIN m \cup {ip} |->
                          IF k = ip THEN Append(newTimes, minute) ELSE m[k]]]

\* --------------------------------------------------- securityMiddleware
\* The status securityMiddleware answers with by itself, or 0 when it calls
\* the handler, and rateLimitMap afterwards.
securityMiddleware(remoteAddr, m, t) ==
    LET addr == SplitOf[remoteAddr]
        rl == checkRateLimit(m, addr.host, t)
    IN  IF ~addr.ok THEN [status |-> 400, map |-> m]
        ELSE [status |-> IF rl.ok THEN 0 ELSE 429, map |-> rl.map]

\* ---------------------------------------------------------- /report.php
\* The mutant of PortInRange: a port below 1024 is accepted.
PortInRangeAny(port) ==
    port <= 65535

\* The handler rejects "port < 1024 || port > 65535".
PortInRange(port) ==
    port >= 1024 /\ port <= 65535

\* The mutant of Blacklisted: no address counts as blacklisted.
BlacklistedNever(cfg, ip) ==
    FALSE

\* cfg.Blacklist[ip]
Blacklisted(cfg, ip) ==
    ip \in cfg.Blacklist

\* The mutant of SilentDrop: a blacklisted client is told it is forbidden.
SilentDropForbidden(entries) ==
    [status |-> 403, reported |-> FALSE, Entries |-> entries]

\* "Silent drop for blacklisted IPs": w.WriteHeader(http.StatusOK); return
SilentDrop(entries) ==
    [status |-> 200, reported |-> FALSE, Entries |-> entries]

Rejected(status, entries) ==
    [status |-> status, reported |-> FALSE, Entries |-> entries]

\* The handler of /report.php on a request the middleware let through, at
\* clock value t: the status, whether servers.Report was called, and Entries
\* afterwards.  Report runs under the mutex; here no other goroutine runs.
ReportHandler(req, cfg, entries, t) ==
    LET port == AtoiOf[req.port]
        addr == SplitOf[req.remoteAddr]
    IN  IF req.method # "POST" THEN Rejected(405, entries)
        ELSE IF req.userAgent # cfg.AllowedUserAgent THEN Rejected(403, entries)
        ELSE IF req.form = "bad" THEN Rejected(400, entries)
        ELSE IF req.port = <<>> THEN Rejected(400, entries)
        ELSE IF ~port.ok \/ ~PortInRange(port.n) THEN Rejected(400, entries)
        ELSE IF ~addr.ok \/ Blacklisted(cfg, addr.host) THEN SilentDrop(entries)
        ELSE IF ~ParseIPOf[addr.host] THEN Rejected(400, entries)
        ELSE [status |-> 200, reported |-> TRUE,
              Entries |-> Store(entries, Sprintf(addr.host, port.n), Unix(t))]

\* securityMiddleware(handler of /report.php) on the request req.
ServeReport(req, cfg, entries, m, t) ==
    LET mw == securityMiddleware(req.remoteAddr, m, t)
        h == ReportHandler(req, cfg, entries, t)
    IN  IF mw.status # 0
        THEN [status |-> mw.status, reported |-> FALSE, Entries |-> entries,
              map |-> mw.map]
        ELSE [status |-> h.status, reported |-> h.reported,
              Entries |-> h.Entries, map |-> mw.map]

\* ------------------------------------------------------- the HTTP server
\* The goroutines of the registry model are not running.
RegistryIdle ==
    /\ mutex = NoOne
    /\ rep = [r \in Reporters |-> RepIdle]
    /\ rd = [g \in Readers |-> RdIdle]
    /\ sw = SwIdle
    /\ lastReport = [a \in Addrs |-> Never]
    /\ life = [a \in Addrs |-> "never"]
    /\ raced = FALSE

registryVars == <<mutex, rep, rd, sw, lastReport, life, raced>>

\* main after NewServerList(cfg) and the registration of the handlers.
HttpInit ==
    /\ now = 0
    /\ Entries = EmptyMap
    /\ Config = HttpConfig
    /\ RegistryIdle
    /\ FrontIdle
    /\ LoadIdle

\* The number of requests the middleware has let through so far.
RECURSIVE Served(_)
Served(m) ==
    IF DOMAIN m = {} THEN 0
    ELSE LET ip == CHOOSE k \in DOMAIN m : TRUE IN
             Len(m[ip]) + Served([k \in DOMAIN m \ {ip} |-> m[k]])

\* A request to /report.php is served.
ReportPhp ==
    /\ Served(rateLimitMap) < MaxRequests
    /\ \E req \in ReportRequests :
         LET out == ServeReport(req, Config, Entries, rateLimitMap, now) IN
             /\ Entries' = out.Entries
             /\ rateLimitMap' = out.map
             /\ last' = [endpoint |-> "/report.php", req |-> req,
                         status |-> out.status, reported |-> out.reported]
    /\ UNCHANGED <<now, Config, admitted, twin, mainPc, registryVars, loadVars>>

\* s.GetActive() with no other goroutine running.
GetActive(cfg, entries, t) ==
    {SortStrings(order) :
        order \in Lists({a \in DOMAIN entries :
                            Keep(entries[a], Unix(t - cfg.StaleTimeout))},
                        cfg.OfficialServers)}

\* "\n"
Newline == <<10>>

\* A request to /servers.txt is served: the middleware, the method, then the
\* active list joined by newlines.
ServersTxt ==
    /\ Served(rateLimitMap) < MaxRequests
    /\ \E list \in GetActive(Config, Entries, now) :
         \E remoteAddr \in RemoteAddrs, method \in Methods :
             LET mw == securityMiddleware(remoteAddr, rateLimitMap, now) IN
                 /\ rateLimitMap' = mw.map
                 /\ last' = [endpoint |-> "/servers.txt",
                             remoteAddr |-> remoteAddr, method |-> method,
                             status |-> IF mw.status # 0 THEN mw.status
                                        ELSE IF method # "GET" THEN 405 ELSE 200,
                             body |-> IF mw.status = 0 /\ method = "GET"
                                      THEN Join(list, Newline) ELSE <<>>]
    /\ UNCHANGED <<now, Entries, Config, admitted, twin, mainPc, registryVars, loadVars>>

\* The mutant of OfficialBody: the official list is sorted before it is joined.
OfficialBodySorted(cfg) ==
    Join(SortStrings(cfg.OfficialServers), Newline)

\* strings.Join(servers.Config.OfficialServers, "\n")
OfficialBody(cfg) ==
    Join(cfg.OfficialServers, Newline)

\* A request to /official.txt is served: the middleware, the method, then
\* servers.Config.OfficialServers joined by newlines.
OfficialTxt ==
    /\ Served(rateLimitMap) < MaxRequests
    /\ \E remoteAddr \in RemoteAddrs, method \in Methods :
         LET mw == securityMiddleware(remoteAddr, rateLimitMap, now) IN
             /\ rateLimitMap' = mw.map
             /\ last' = [endpoint |-> "/official.txt",
                         remoteAddr |-> remoteAddr, method |-> method,
                         status |-> IF mw.status # 0 THEN mw.status
                                    ELSE IF method # "GET" THEN 405 ELSE 200,
                         body |-> IF mw.status = 0 /\ method = "GET"
                                  THEN OfficialBody(Config) ELSE <<>>]
    /\ UNCHANGED <<now, Entries, Config, admitted, twin, mainPc, registryVars, loadVars>>

\* The mutant of Swept: the pass ends after the first entry it deletes.
SweptOnce(entries, cutoff) ==
    LET stale == {k \in DOMAIN entries : Stale(entries[k], cutoff)} IN
        IF stale = {} THEN entries
        ELSE Delete(entries, CHOOSE k \in stale : TRUE)

\* The map after the loop of cleanupLoop has gone over entries with no other
\* goroutine running: every entry with ts < cutoff is deleted.
Swept(entries, cutoff) ==
    [a \in {k \in DOMAIN entries : ~Stale(entries[k], cutoff)} |-> entries[a]]

\* One pass of cleanupLoop with no other goroutine running; sw keeps the
\* cutoff of the pass and the map it found.
CleanupPass ==
    /\ Entries' = Swept(Entries, Unix(now - Config.StaleTimeout))
    /\ sw' = [SwIdle EXCEPT !.cutoff = Unix(now - Config.StaleTimeout),
                            !.atLock = Entries]
    /\ UNCHANGED <<now, Config, frontVars, loadVars>>
    /\ UNCHANGED <<mutex, rep, rd, lastReport, life, raced>>

HttpNext ==
    \/ Tick
    \/ ReportPhp
    \/ ServersTxt
    \/ OfficialTxt
    \/ CleanupPass

HttpSpec == HttpInit /\ [][HttpNext]_vars

\* ------------------------------------- one request from two clients
\* n entries of the minute m.
Repeated(n, m) ==
    [i \in 1..n |-> m]

\* The limiter states a request is tried in: the client has had no request,
\* 59 requests or 60 requests let through in the current minute.
LimiterCounts == {0, maxRequestsPerMinute - 1, maxRequestsPerMinute}

\* The clients with a valid address that is not blacklisted.
OtherClients == {RemoteA, Remote6}

\* A server at clock value 0 with an empty registry; a request to /report.php
\* is chosen, and how many requests the limiter has already let through for
\* each client.
TwinInit ==
    /\ now = 0
    /\ Entries = EmptyMap
    /\ Config = HttpConfig
    /\ RegistryIdle
    /\ rateLimitMap = EmptyMap
    /\ last = NoRequest
    /\ admitted = EmptyMap
    /\ mainPc = "serve"
    /\ \E req \in {r \in ReportRequests : r.remoteAddr = RemoteB},
          n \in LimiterCounts :
          twin = [asked |-> TRUE, req |-> req, count |-> n,
                  blacklisted |-> 0, other |-> 0, from |-> <<>>]
    /\ LoadIdle

\* The limiter after count requests of the client of remoteAddr were let
\* through in the minute of clock value t.
LimiterAfter(remoteAddr, count, t) ==
    IF SplitOf[remoteAddr].ok /\ count > 0
    THEN [ip \in {SplitOf[remoteAddr].host} |-> Repeated(count, Minute(t))]
    ELSE EmptyMap

\* The status of twin.req when it comes from remoteAddr.
TwinStatus(remoteAddr) ==
    ServeReport([twin.req EXCEPT !.remoteAddr = remoteAddr], Config, Entries,
                LimiterAfter(remoteAddr, twin.count, now), now).status

\* The request comes from the blacklisted client.
ServeBlacklisted ==
    /\ twin.blacklisted = 0
    /\ twin' = [twin EXCEPT !.blacklisted = TwinStatus(RemoteB)]
    /\ UNCHANGED <<now, Entries, Config, rateLimitMap, last, admitted, mainPc,
                   registryVars, loadVars>>

\* The same request comes from a client that is not blacklisted.
ServeOther ==
    /\ twin.other = 0
    /\ \E remoteAddr \in OtherClients :
         twin' = [twin EXCEPT !.other = TwinStatus(remoteAddr),
                              !.from = remoteAddr]
    /\ UNCHANGED <<now, Entries, Config, rateLimitMap, last, admitted, mainPc,
                   registryVars, loadVars>>

TwinNext ==
    \/ ServeBlacklisted
    \/ ServeOther

TwinSpec == TwinInit /\ [][TwinNext]_vars

\* ------------------------------------------------ the limiter over time
\* The server is started in the last second of a minute, and followed into
\* the first second of the next one.
RateStart == (SecondsPerMinute - 1) * TicksPerSecond
RateEnd == SecondsPerMinute * TicksPerSecond

RateInit ==
    /\ now = RateStart
    /\ Entries = EmptyMap
    /\ Config = HttpConfig
    /\ RegistryIdle
    /\ FrontIdle
    /\ LoadIdle

RateTick ==
    /\ now < RateEnd
    /\ now' = now + 1
    /\ UNCHANGED <<Entries, Config, frontVars, registryVars, loadVars>>

\* The client 127.0.0.1 sends a GET to /version: the middleware, then the
\* handler, which answers 200.  (Every endpoint is behind the same middleware
\* and the same rateLimitMap.)
VersionGet ==
    /\ LET mw == securityMiddleware(RemoteA, rateLimitMap, now) IN
           /\ rateLimitMap' = mw.map
           /\ last' = [endpoint |-> "/version", remoteAddr |-> RemoteA,
                       method |-> "GET",
                       status |-> IF mw.status # 0 THEN mw.status ELSE 200]
           /\ admitted' =
                  IF mw.status # 0 THEN admitted
                  ELSE [ip \in DOMAIN admitted \cup {IpA} |->
                          IF ip = IpA
                          THEN Append(IF IpA \in DOMAIN admitted
                                      THEN admitted[IpA] ELSE <<>>, Unix(now))
                          ELSE admitted[ip]]
    /\ UNCHANGED <<now, Entries, Config, twin, mainPc, registryVars, loadVars>>

RateNext ==
    \/ RateTick
    \/ VersionGet

RateSpec == RateInit /\ [][RateNext]_vars

\* ------------------------------------------------ the limiter at its limit
\* Requests to /report.php that pass every check of the handler but the one on
\* the port, from 127.0.0.1 and from ::1.
LimitRequests ==
    {r \in ReportRequests :
        /\ r.remoteAddr \in OtherClients
        /\ r.method = "POST" /\ r.userAgent = HttpConfig.AllowedUserAgent
        /\ r.form = "ok" /\ r.port # <<>>}

\* The server in the last second of a minute, after 59 requests of 127.0.0.1
\* to /version in that minute (one more is let through) and one request of
\* ::1 or none.
LimitInit ==
    /\ now = RateStart
    /\ Entries = EmptyMap
    /\ Config = HttpConfig
    /\ RegistryIdle
    /\ \E n \in {0, 1} :
         rateLimitMap =
             LimiterAfter(RemoteA, maxRequestsPerMinute - 1, RateStart)
                 @@ LimiterAfter(Remote6, n, RateStart)
    /\ last = NoRequest
    /\ admitted = EmptyMap
    /\ twin = NoTwin
    /\ mainPc = "serve"
    /\ LoadIdle

\* A request to /report.php is served, until the middleware has let
\* MaxRequests more requests through.
ReportPhpAtLimit ==
    /\ Served(rateLimitMap) < maxRequestsPerMinute + MaxRequests
    /\ \E req \in LimitRequests :
         LET out == ServeReport(req, Config, Entries, rateLimitMap, now) IN
             /\ Entries' = out.Entries
             /\ rateLimitMap' = out.map
             /\ last' = [endpoint |-> "/report.php", req |-> req,
                         status |-> out.status, reported |-> out.reported]
    /\ UNCHANGED <<now, Config, admitted, twin, mainPc, registryVars, loadVars>>

LimitNext ==
    \/ RateTick
    \/ ReportPhpAtLimit

LimitSpec == LimitInit /\ [][LimitNext]_vars

\* =============================================================== loadConfig
\* ------------------------------------------------------- texts and parsing
\* "LU-Server/0.1" and "lusd_server.log"
DefaultUserAgent == <<76, 85, 45, 83, 101, 114, 118, 101, 114, 47, 48, 46, 49>>
DefaultLogFile == <<108, 117, 115, 100, 95, 115, 101, 114, 118, 101, 114, 46, 108, 111, 103>>

\* ".."
DotDot == <<46, 46>>

\* filepath.Clean on the components of a path, done being the cleaned part.
RECURSIVE CleanParts(_, _, _)
CleanParts(parts, done, rooted) ==
    IF parts = <<>> THEN done
    ELSE IF Head(parts) = <<>> \/ Head(parts) = <<46>>
         THEN CleanParts(Tail(parts), done, rooted)
    ELSE IF Head(parts) # DotDot
         THEN CleanParts(Tail(parts), Append(done, Head(parts)), rooted)
    ELSE IF done # <<>> /\ done[Len(done)] # DotDot
         THEN CleanParts(Tail(parts), SubSeq(done, 1, Len(done) - 1), rooted)
    ELSE IF rooted THEN CleanParts(Tail(parts), done, rooted)
    ELSE CleanParts(Tail(parts), Append(done, DotDot), rooted)

\* filepath.Clean(path), with "/" as the separator.
Clean(path) ==
    LET rooted == path # <<>> /\ path[1] = 47
        parts == CleanParts(Split(path, 47), <<>>, rooted)
    IN  IF rooted THEN <<47>> \o Join(parts, <<47>>)
        ELSE IF parts = <<>> THEN <<46>>
        ELSE Join(parts, <<47>>)

\* strings.TrimSpace(s), for the space character.
RECURSIVE TrimSpace(_)
TrimSpace(s) ==
    IF s # <<>> /\ s[1] = 32 THEN TrimSpace(Tail(s))
    ELSE IF s # <<>> /\ s[Len(s)] = 32 THEN TrimSpace(SubSeq(s, 1, Len(s) - 1))
    ELSE s

\* time.ParseDuration(s) for one whole number with the unit s, m or h, and
\* for "0": whether it parses, and the duration in ticks.
ParseDuration(s) ==
    LET body == UnsignedPart(s)
        digits == SubSeq(body, 1, Len(body) - 1)
        unit == IF body = <<>> THEN 0 ELSE body[Len(body)]
        seconds == DigitsValue(digits)
                   * (IF unit = 115 THEN 1 ELSE IF unit = 109 THEN 60 ELSE 3600)
    IN  IF body = <<48>> THEN [ok |-> TRUE, d |-> 0]
        ELSE IF /\ digits # <<>>
                /\ \A i \in 1..Len(digits) : IsDigit(digits[i])
                /\ unit \in {115, 109, 104}
             THEN [ok |-> TRUE,
                   d |-> (IF s[1] = 45 THEN 0 - seconds ELSE seconds)
                         * TicksPerSecond]
        ELSE [ok |-> FALSE, d |-> 0]

\* strconv.ParseBool(s)
ParseBool(s) ==
    IF s \in {<<49>>,
               <<116>>,
               <<84>>,
               <<84, 82, 85, 69>>,
               <<116, 114, 117, 101>>,
               <<84, 114, 117, 101>>}
    THEN [ok |-> TRUE, v |-> TRUE]
    ELSE IF s \in {<<48>>,
                    <<102>>,
                    <<70>>,
                    <<70, 65, 76, 83, 69>>,
                    <<102, 97, 108, 115, 101>>,
                    <<70, 97, 108, 115, 101>>}
    THEN [ok |-> TRUE, v |-> FALSE]
    ELSE [ok |-> FALSE, v |-> FALSE]

\* ------------------------------------------------------------- loadConfig
\* defaultCfg
defaultCfg ==
    [Port |-> 80, AllowedUserAgent |-> DefaultUserAgent,
     StaleTimeout |-> 10 * SecondsPerMinute * TicksPerSecond,
     Blacklist |-> {}, OfficialServers |-> <<>>,
     LogFile |-> DefaultLogFile, LogEnabled |-> TRUE]

\* defaultJsonCfg, what loadConfig writes when there is no file; its
\* staleTimeout is "10m".
defaultJsonCfg ==
    [Port |-> 80, AllowedUserAgent |-> DefaultUserAgent,
     StaleTimeout |-> <<49, 48, 109>>, Blacklist |-> <<>>,
     OfficialServers |-> <<>>, LogFile |-> DefaultLogFile, LogEnabled |-> TRUE]

maxConfigFileSize == 33554432

\* "Parse blacklist with validation": the trimmed entries that are IP literals.
BlacklistOf(list) ==
    {TrimSpace(list[i]) : i \in {j \in 1..Len(list) : ParseIP(TrimSpace(list[j]))}}

\* The host net.ParseIP is given for an official server address.
OfficialHost(addr) ==
    IF SplitHostPort(addr).ok THEN SplitHostPort(addr).host ELSE addr

\* "Clean up official servers list": the trimmed entries whose host is an IP
\* literal, in order.
RECURSIVE OfficialOf(_)
OfficialOf(list) ==
    IF list = <<>> THEN <<>>
    ELSE IF ParseIP(OfficialHost(TrimSpace(Head(list))))
         THEN <<TrimSpace(Head(list))>> \o OfficialOf(Tail(list))
    ELSE OfficialOf(Tail(list))

\* "Convert JSON config to internal config", with the validations; the stale
\* timeout is the default when the text does not parse.
FromJson(jsonCfg) ==
    [Port |-> IF jsonCfg.Port < 1 \/ jsonCfg.Port > 65535
              THEN defaultCfg.Port ELSE jsonCfg.Port,
     AllowedUserAgent |-> IF jsonCfg.AllowedUserAgent = <<>>
                          THEN defaultCfg.AllowedUserAgent
                          ELSE jsonCfg.AllowedUserAgent,
     StaleTimeout |-> IF ParseDuration(jsonCfg.StaleTimeout).ok
                      THEN ParseDuration(jsonCfg.StaleTimeout).d
                      ELSE defaultCfg.StaleTimeout,
     Blacklist |-> BlacklistOf(jsonCfg.Blacklist),
     OfficialServers |-> OfficialOf(jsonCfg.OfficialServers),
     LogFile |-> IF jsonCfg.LogFile = <<>> THEN defaultCfg.LogFile
                 ELSE jsonCfg.LogFile,
     LogEnabled |-> jsonCfg.LogEnabled]

\* "Override with environment variables if present (with validation)"; an
\* unset variable reads as the empty text.
Overridden(cfg, env) ==
    LET port == Atoi(env.LUSD_PORT)
        timeout == ParseDuration(env.LUSD_STALE_TIMEOUT)
        enabled == ParseBool(env.LUSD_LOG_ENABLED)
    IN  [Port |-> IF env.LUSD_PORT # <<>> /\ port.ok /\ port.n > 0
                     /\ port.n <= 65535
                  THEN port.n ELSE cfg.Port,
         AllowedUserAgent |->
             IF env.LUSD_USER_AGENT # <<>> /\ Len(env.LUSD_USER_AGENT) <= 100
             THEN env.LUSD_USER_AGENT ELSE cfg.AllowedUserAgent,
         StaleTimeout |->
             IF env.LUSD_STALE_TIMEOUT # <<>> /\ timeout.ok /\ timeout.d > 0
             THEN timeout.d ELSE cfg.StaleTimeout,
         Blacklist |-> cfg.Blacklist,
         OfficialServers |-> cfg.OfficialServers,
         LogFile |->
             IF /\ env.LUSD_LOG_FILE # <<>>
                /\ Len(env.LUSD_LOG_FILE) <= 255
                /\ ~Contains(env.LUSD_LOG_FILE, DotDot)
             THEN env.LUSD_LOG_FILE ELSE cfg.LogFile,
         LogEnabled |-> IF env.LUSD_LOG_ENABLED # <<>> /\ enabled.ok
                        THEN enabled.v ELSE cfg.LogEnabled]

\* The mutant of Fallback: the environment overrides the defaults.
FallbackOverridden(env) ==
    Overridden(defaultCfg, env)

\* "using defaults": return defaultCfg
Fallback(env) ==
    defaultCfg

\* secureReadFile(path, maxConfigFileSize) succeeds on the file f.
Readable(path, f) ==
    /\ Clean(path) = path
    /\ ~(path # <<>> /\ path[1] = 47 /\ Contains(path, DotDot))
    /\ f.state = "present"
    /\ f.size <= maxConfigFileSize

\* loadConfig(configPath) with the file f at the cleaned path and the
\* environment env.
loadConfig(configPath, f, env) ==
    LET path == Clean(configPath) IN
        IF Contains(path, DotDot) THEN Fallback(env)
        ELSE IF f.state = "missing" THEN Fallback(env)
        ELSE IF ~Readable(path, f) THEN Fallback(env)
        ELSE IF ~f.valid THEN Fallback(env)
        ELSE Overridden(FromJson(f.json), env)

\* ------------------------------------------------------ the loader's inputs
\* The paths loadConfig is given: "config.json", "/opt/lusd/config.json",
\* "../config.json", "conf/../config.json" and "/opt/lusd..2/config.json".
ConfigPaths ==
    {<<99, 111, 110, 102, 105, 103, 46, 106, 115, 111, 110>>,
     <<47, 111, 112, 116, 47, 108, 117, 115, 100, 47, 99, 111, 110, 102, 105, 103, 46, 106, 115, 111, 110>>,
     <<46, 46, 47, 99, 111, 110, 102, 105, 103, 46, 106, 115, 111, 110>>,
     <<99, 111, 110, 102, 47, 46, 46, 47, 99, 111, 110, 102, 105, 103, 46, 106, 115, 111, 110>>,
     <<47, 111, 112, 116, 47, 108, 117, 115, 100, 46, 46, 50, 47, 99, 111, 110, 102, 105, 103, 46, 106, 115, 111, 110>>}

\* A config file that sets every field: port 8080, agent "X/1", timeout "1h",
\* a blacklist and an official list with entries to trim and to skip, log
\* file "x.log", logging off.
customJsonCfg ==
    [Port |-> 8080, AllowedUserAgent |-> <<88, 47, 49>>, StaleTimeout |-> <<49, 104>>,
     Blacklist |-> <<<<32, 49, 48, 46, 48, 46, 48, 46, 57, 32>>, <<110, 111, 98, 111, 100, 121>>, <<>>>>,
     OfficialServers |-> <<<<32, 49, 57, 50, 46, 49, 54, 56, 46, 49, 46, 49, 48, 48, 58, 49, 50, 51, 52>>, <<101, 120, 97, 109, 112, 108, 101, 46, 99, 111, 109, 58, 56, 48>>,
                           <<58, 58, 49>>, <<32>>>>,
     LogFile |-> <<120, 46, 108, 111, 103>>, LogEnabled |-> FALSE]

\* var jsonCfg jsonConfig
zeroJsonCfg ==
    [Port |-> 0, AllowedUserAgent |-> <<>>, StaleTimeout |-> <<>>,
     Blacklist |-> <<>>, OfficialServers |-> <<>>, LogFile |-> <<>>,
     LogEnabled |-> FALSE]

\* The decoded contents of a config file: the default file, "{}", and the
\* custom file with the staleTimeout "", "30s", "0", "-5s" or "soon" and
\* with a port out of range.
JsonConfigs ==
    {defaultJsonCfg, customJsonCfg, zeroJsonCfg}
    \cup {[customJsonCfg EXCEPT !.StaleTimeout = t] : t \in
              {<<>>, <<51, 48, 115>>, <<48>>, <<45, 53, 115>>, <<115, 111, 111, 110>>}}
    \cup {[customJsonCfg EXCEPT !.Port = p] : p \in {0 - 1, 65536}}

\* The file at the cleaned path: missing, not accessible, or present with a
\* size, whether json.Unmarshal accepts it, and what it decodes to. The sizes
\* are that of the default file, one byte over 1MB and one byte over
\* maxConfigFileSize.
ConfigFiles ==
    {[state |-> "missing"], [state |-> "denied"]}
    \cup {[state |-> "present", size |-> 182, valid |-> TRUE, json |-> j] :
             j \in JsonConfigs}
    \cup {[state |-> "present", size |-> n, valid |-> v,
           json |-> IF v THEN customJsonCfg ELSE zeroJsonCfg] :
             n \in {182, 1024 * 1024 + 1, maxConfigFileSize + 1},
             v \in BOOLEAN}

\* The environment: each variable unset (empty), valid, or invalid.
Environments ==
    [LUSD_PORT : {<<>>, <<56, 48, 56, 48>>, <<55, 48, 48, 48, 48>>, <<120>>},
     LUSD_USER_AGENT : {<<>>, <<89, 47, 50>>, Repeated(101, 97)},
     LUSD_STALE_TIMEOUT : {<<>>, <<51, 48, 115>>, <<45, 53, 115>>, <<115, 111, 111, 110>>},
     LUSD_LOG_FILE : {<<>>, <<121, 46, 108, 111, 103>>, <<46, 46, 47, 121, 46, 108, 111, 103>>, Repeated(256, 97)},
     LUSD_LOG_ENABLED : {<<>>, <<102, 97, 108, 115, 101>>, <<109, 97, 121, 98, 101>>}]

\* ---------------------------------------------------------- the loader spec
\* The process before main calls loadConfig: a path, the file there and the
\* environment are given.
LoadInit ==
    /\ now = 0
    /\ Entries = EmptyMap
    /\ Config = HttpConfig
    /\ RegistryIdle
    /\ FrontIdle
    /\ \E p \in ConfigPaths, f \in ConfigFiles :
           file = [path |-> p] @@ f
    /\ environ \in Environments
    /\ loaded = NotLoaded

\* The file after loadConfig: a missing file at an accepted path is created
\* with the default content unless secureWriteFile fails.
FileAfter(f) ==
    IF f.state = "missing" /\ ~Contains(Clean(f.path), DotDot)
    THEN {f, [path |-> f.path, state |-> "present", size |-> 182,
              valid |-> TRUE, json |-> defaultJsonCfg]}
    ELSE {f}

\* main at a start of the process: cfg := loadConfig(configPath)
LoadConfig ==
    /\ loaded' = [called |-> TRUE, found |-> file,
                  cfg |-> loadConfig(file.path, file, environ)]
    /\ file' \in FileAfter(file)
    /\ UNCHANGED <<now, Entries, Config, registryVars, frontVars, environ>>

LoadNext ==
    LoadConfig

LoadSpec ==
    LoadInit /\ [][LoadNext]_vars

\* ------------------------------------------------------------- claims
\* GetActive has built the list it returns (it still holds the lock).
Returned(g) ==
    rd[g].pc = "ret"

Result(g) ==
    Range(rd[g].list)

Official ==
    Range(Config.OfficialServers)

\* C1: the addresses GetActive returns are exactly the registrations with
\* timestamp >= Unix(query time - StaleTimeout) together with the official
\* servers, the query time being the clock value GetActive read.
C1_ActiveSetExact ==
    \A g \in Readers :
        Returned(g) =>
            Result(g) =
                {a \in DOMAIN Entries :
                    Entries[a] >= Unix(rd[g].queryAt - Config.StaleTimeout)}
                \cup Official

\* A result that keeps a fresh registration, leaves out a stale one that is
\* still in the map, and holds the official servers.
C1_Witness ==
    \E g \in Readers :
        /\ Returned(g)
        /\ Official # {}
        /\ AddrA2 \in DOMAIN Entries /\ AddrA2 \notin Result(g)
        /\ AddrA \in DOMAIN Entries /\ Entries[AddrA] >= rd[g].cutoff
        /\ AddrA \in Result(g) /\ AddrC \in Result(g)

\* C2: every official server is in every result of GetActive.
C2_OfficialPermanence ==
    \A g \in Readers : Returned(g) => Official \subseteq Result(g)

\* A result holding an official server that was never reported and one whose
\* report went stale and was swept.
C2_Witness ==
    \E g \in Readers :
        /\ Returned(g)
        /\ AddrC \in Result(g) /\ lastReport[AddrC] = Never
        /\ AddrA \in Result(g) /\ life[AddrA] = "swept"
        /\ AddrA \notin DOMAIN Entries

C4_AbsentFromTimeout ==
    \A g \in Readers : \A a \in Addrs \ Official :
        (/\ Returned(g)
         /\ lastReport[a] # Never
         /\ rd[g].queryAt >= lastReport[a] + Config.StaleTimeout)
        => a \notin Result(g)

\* C4 as amended: it is in no result of a GetActive call made at
\* t >= t0 + StaleTimeout + 1 second, whether or not a sweep has run.
C4_AbsentSecondAfterTimeout ==
    \A g \in Readers : \A a \in Addrs \ Official :
        (/\ Returned(g)
         /\ lastReport[a] # Never
         /\ rd[g].queryAt >= lastReport[a] + Config.StaleTimeout + TicksPerSecond)
        => a \notin Result(g)

\* A result that leaves out a stale registration no sweep has deleted yet.
C4_Witness ==
    \E g \in Readers : \E a \in Addrs \ Official :
        /\ Returned(g)
        /\ lastReport[a] # Never
        /\ rd[g].queryAt >= lastReport[a] + Config.StaleTimeout + TicksPerSecond
        /\ a \in DOMAIN Entries
        /\ a \notin Result(g)

\* The one list that holds each element of S once, in increasing order.
TheSorted(S) ==
    CHOOSE s \in Orders(S) : \A i \in 1..(Len(s) - 1) : StrLess(s[i], s[i + 1])

\* C5: the list GetActive returns is in increasing order of the address
\* strings, and is the same for the same mapping, official list and cutoff,
\* whatever the order in which the maps were iterated.
C5_SortDeterminism ==
    \A g \in Readers :
        Returned(g) =>
            /\ \A i \in 1..(Len(rd[g].list) - 1) :
                   ~StrLess(rd[g].list[i + 1], rd[g].list[i])
            /\ rd[g].list =
                   TheSorted({a \in DOMAIN Entries : Entries[a] >= rd[g].cutoff}
                             \cup Official)

\* A result of three addresses, "127.0.0.1:10000" before "127.0.0.1:2301".
C5_Witness ==
    \E g \in Readers :
        Returned(g) /\ rd[g].list = <<AddrA2, AddrA, AddrC>>

\* C6: no address occurs twice in the list GetActive returns.
C6_NoDuplicates ==
    \A g \in Readers :
        Returned(g) =>
            \A i, j \in 1..Len(rd[g].list) :
                rd[g].list[i] = rd[g].list[j] => i = j

\* A result holding once an address that is reported, fresh and official, and
\* once the address the official list names twice.
C6_Witness ==
    \E g \in Readers :
        /\ Returned(g)
        /\ AddrA \in Official /\ AddrA \in DOMAIN Entries
        /\ Entries[AddrA] >= rd[g].cutoff
        /\ Cardinality({i \in 1..Len(rd[g].list) : rd[g].list[i] = AddrA}) = 1
        /\ Cardinality({i \in 1..Len(Config.OfficialServers) :
                            Config.OfficialServers[i] = AddrC}) = 2
        /\ Cardinality({i \in 1..Len(rd[g].list) : rd[g].list[i] = AddrC}) = 1

\* The addresses reported and not deleted since.
Live ==
    {a \in Addrs : life[a] \in {"new", "refreshed"}}

\* C7: an address reported and not swept since has one entry, whose timestamp
\* is the second of its latest Report; the mapping has as many entries as
\* there are such addresses.
C7_IdempotentOverwrite ==
    /\ \A a \in Live : a \in DOMAIN Entries /\ Entries[a] = Unix(lastReport[a])
    /\ Cardinality(DOMAIN Entries) = Cardinality(Live)

\* An address reported a second time, in a later second than the first.
C7_Witness ==
    \E a \in Addrs :
        /\ life[a] = "refreshed"
        /\ a \in DOMAIN Entries
        /\ Entries[a] = Unix(lastReport[a]) /\ Entries[a] > 0
        /\ Cardinality(DOMAIN Entries) = 1

\* The mutex is held only by a goroutine inside its critical section, which
\* has a step towards its Unlock.
HeldInside ==
    /\ \A r \in Reporters : mutex = r => rep[r].pc = "write"
    /\ \A g \in Readers : mutex = g => rd[g].pc \in {"range", "ret"}
    /\ mutex = Sweeper => sw.pc = "range"

\* C8: every address whose Report completed less than StaleTimeout ago is an
\* entry of the mapping and is in the result GetActive produces, however the
\* Reports, GetActive calls and the sweep were interleaved.
C8_NoLostUpdates ==
    \A a \in Addrs :
        (lastReport[a] # Never /\ now < lastReport[a] + Config.StaleTimeout)
        => /\ a \in DOMAIN Entries
           /\ \A g \in Readers : Returned(g) => a \in Result(g)
           /\ HeldInside

\* Two Reports for different addresses that were in flight together have both
\* written in this tick, and the result holds both addresses.
C8_Witness ==
    \E g \in Readers :
        /\ Returned(g)
        /\ raced
        /\ lastReport[AddrA] = now /\ lastReport[AddrA2] = now
        /\ {AddrA, AddrA2} \subseteq DOMAIN Entries
        /\ {AddrA, AddrA2} \subseteq Result(g)

\* C9: while GetActive reads the mapping it is the mapping of the instant the
\* lock was taken, and the result is computed from that one mapping.
C9_AtomicSnapshot ==
    \A g \in Readers :
        /\ rd[g].pc \in {"range", "ret"} => Entries = rd[g].atLock
        /\ Returned(g) =>
               Result(g) =
                   {a \in DOMAIN rd[g].atLock : rd[g].atLock[a] >= rd[g].cutoff}
                   \cup Official

\* A result computed while a Report for an address it does not hold and a
\* sweep that will delete an address it holds are both waiting for the lock.
C9_Witness ==
    \E g \in Readers : \E r \in Reporters :
        /\ Returned(g)
        /\ rep[r].pc = "lock" /\ rep[r].addr \notin Result(g)
        /\ sw.pc = "lock"
        /\ \E a \in Result(g) \ Official : Entries[a] < sw.cutoff

\* An entry of the mapping that the next sweep would delete.
StaleEntry(a) ==
    a \in DOMAIN Entries /\ Entries[a] < Unix(now - Config.StaleTimeout)

\* C10: under the scheduling of Fairness, an entry whose timestamp is older
\* than the cutoff does not stay: it is deleted by the sweep, unless a Report
\* refreshes it first.
C10_StaleEventuallyDeleted ==
    \A a \in Addrs : StaleEntry(a) ~> ~StaleEntry(a)

\* The sweep has deleted a registration that was no longer reported.
C10_Witness ==
    \E a \in Addrs :
        /\ life[a] = "swept"
        /\ a \notin DOMAIN Entries
        /\ Unix(lastReport[a]) < Unix(now - Config.StaleTimeout)

\* ------------------------------------------------ claims on the HTTP front
\* The last request served was a request to /report.php.
LastReport ==
    last.endpoint = "/report.php"

\* key has the form host:port, host an IP literal, port a number in
\* [1024, 65535].
ValidKey(key) ==
    LET hp == SplitHostPort(key) IN
        /\ hp.ok
        /\ ParseIP(hp.host)
        /\ Atoi(hp.port).ok
        /\ Atoi(hp.port).n \in 1024..65535

\* The port field of req is a number in [1024, 65535].
GoodPort(req) ==
    /\ req.form = "ok"
    /\ Atoi(req.port).ok
    /\ Atoi(req.port).n \in 1024..65535

\* The source address of req has a host that is an IP literal.
GoodSource(req) ==
    /\ SplitHostPort(req.remoteAddr).ok
    /\ ParseIP(SplitHostPort(req.remoteAddr).host)

\* C11: every key of Entries is a valid host:port string, the host an IP
\* literal and the port in [1024, 65535], and a request whose port is outside
\* that range or whose source address is not valid does not reach Report.
C11_KeyValidity ==
    /\ \A key \in DOMAIN Entries : ValidKey(key)
    /\ (LastReport /\ last.reported) =>
           GoodPort(last.req) /\ GoodSource(last.req)

\* The source address of req is blacklisted.
FromBlacklisted(req) ==
    /\ SplitHostPort(req.remoteAddr).ok
    /\ SplitHostPort(req.remoteAddr).host \in Config.Blacklist

\* key is an address of the blacklisted host ip.
KeyOfHost(key, ip) ==
    Len(key) > Len(ip) /\ SubSeq(key, 1, Len(ip) + 1) = ip \o <<58>>

\* C12: a request from a blacklisted address that is a POST with the allowed
\* User-Agent and a port in [1024, 65535], and within the rate limit, is
\* answered 200 without a call of Report; the step that serves it leaves
\* Entries as it was, and Entries never has a key of a blacklisted host.
C12_SilentBlacklistDrop ==
    /\ [](/\ (/\ LastReport
              /\ FromBlacklisted(last.req)
              /\ last.req.method = "POST"
              /\ last.req.userAgent = Config.AllowedUserAgent
              /\ GoodPort(last.req)
              /\ last.status # 429)
             => (last.status = 200 /\ ~last.reported)
          /\ \A key \in DOMAIN Entries : \A ip \in Config.Blacklist :
                 ~KeyOfHost(key, ip))
    /\ [][(/\ rateLimitMap' # rateLimitMap
           /\ last'.endpoint = "/report.php"
           /\ FromBlacklisted(last'.req))
          => Entries' = Entries]_vars

\* A valid report of the blacklisted client was answered 200 and the
\* registry, which holds a registration, has no entry for that client.
C12_Witness ==
    /\ LastReport
    /\ last.req.remoteAddr = RemoteB
    /\ last.req.method = "POST"
    /\ last.req.userAgent = "LU-Server/0.1"
    /\ last.req.port = <<49, 48, 50, 52>>
    /\ last.status = 200
    /\ DOMAIN Entries = {IpA \o <<58, 49, 48, 50, 52>>}

\* C13: a request to /report.php gets the same status from the blacklisted
\* client as from a client with a valid address that is not blacklisted, the
\* limiter having let through as many requests of the one as of the other.
C13_NoBlacklistOracle ==
    (twin.asked /\ twin.blacklisted # 0 /\ twin.other # 0)
    => twin.blacklisted = twin.other

\* A valid report got 200 from the blacklisted client and from 127.0.0.1.
C13_Witness ==
    /\ twin.asked
    /\ twin.req.method = "POST"
    /\ twin.req.userAgent = "LU-Server/0.1"
    /\ twin.req.port = <<49, 48, 50, 52>>
    /\ twin.count = 59
    /\ twin.blacklisted = 200
    /\ twin.other = 200
    /\ twin.from = RemoteA

\* A port defect: the field is missing, is not a number, or is out of range.
PortDefect(req) ==
    ~GoodPort(req)

AdmittedFrom(ip, s) ==
    Cardinality({i \in 1..Len(admitted[ip]) :
                    admitted[ip][i] \in s..(s + SecondsPerMinute - 1)})

\* C15: in every interval of 60 consecutive seconds the middleware lets at
\* most 60 requests of one client through to a handler.
C15_SlidingWindow ==
    \A ip \in DOMAIN admitted :
        \A s \in 0..Unix(now) : AdmittedFrom(ip, s) <= maxRequestsPerMinute

\* C19: Config is never changed, and the body of /official.txt is the
\* configured list, "192.168.1.100:1234", "127.0.0.1:2301",
\* "192.168.1.100:1234", joined by newlines in that order, whatever has been
\* reported and swept.
C19_OfficialListFixed ==
    /\ [][Config' = Config]_vars
    /\ []((last.endpoint = "/official.txt" /\ last.status = 200)
          => last.body = AddrC \o <<10>> \o AddrA \o <<10>> \o AddrC)

\* /official.txt was served after a Report, at a later time.
C19_Witness ==
    /\ last.endpoint = "/official.txt"
    /\ last.status = 200
    /\ last.body # <<>>
    /\ Entries # EmptyMap
    /\ now > 0

\* ------------------------------------------------ claims on loadConfig
\* The file loadConfig found cannot be used: it is missing, cannot be read,
\* or is not valid JSON.
Faulty(f) ==
    \/ f.state \in {"missing", "denied"}
    \/ f.state = "present" /\ ~f.valid

ValidConfig(cfg) ==
    /\ cfg.Port \in 1..65535
    /\ cfg.AllowedUserAgent # <<>>
    /\ cfg.LogFile # <<>>
    /\ cfg.StaleTimeout > 0
    /\ \A ip \in cfg.Blacklist : ParseIP(ip)
    /\ \A i \in 1..Len(cfg.OfficialServers) :
           ParseIP(OfficialHost(cfg.OfficialServers[i]))

\* C17: for every content of the config file and every environment, the
\* Config loadConfig returns has a port within 1..65535, a non-empty
\* AllowedUserAgent and LogFile, a strictly positive StaleTimeout, a blacklist
\* of IP literals only and an official list whose hosts are all IP literals.
C17_ValidConfiguration ==
    loaded.called => ValidConfig(loaded.cfg)

\* Every environment variable that holds a valid value is the value of its
\* field in cfg.
EnvApplied(cfg, env) ==
    /\ Atoi(env.LUSD_PORT).ok /\ Atoi(env.LUSD_PORT).n \in 1..65535
           => cfg.Port = Atoi(env.LUSD_PORT).n
    /\ env.LUSD_USER_AGENT # <<>> /\ Len(env.LUSD_USER_AGENT) <= 100
           => cfg.AllowedUserAgent = env.LUSD_USER_AGENT
    /\ ParseDuration(env.LUSD_STALE_TIMEOUT).ok
           /\ ParseDuration(env.LUSD_STALE_TIMEOUT).d > 0
           => cfg.StaleTimeout = ParseDuration(env.LUSD_STALE_TIMEOUT).d
    /\ env.LUSD_LOG_FILE # <<>> /\ Len(env.LUSD_LOG_FILE) <= 255
           /\ ~Contains(env.LUSD_LOG_FILE, DotDot)
           => cfg.LogFile = env.LUSD_LOG_FILE
    /\ ParseBool(env.LUSD_LOG_ENABLED).ok
           => cfg.LogEnabled = ParseBool(env.LUSD_LOG_ENABLED).v

\* C18: whenever LUSD_PORT, LUSD_USER_AGENT, LUSD_STALE_TIMEOUT,
\* LUSD_LOG_FILE or LUSD_LOG_ENABLED holds a valid value, the Config
\* loadConfig returns carries that value, whatever the state of the config
\* file.
C18_EnvironmentPriority ==
    loaded.called => EnvApplied(loaded.cfg, environ)

\* C20: a config file larger than 1MB is not loaded; loadConfig returns the
\* default configuration.
C20_ConfigSizeLimit ==
    loaded.called /\ loaded.found.state = "present"
        /\ loaded.found.size > 1024 * 1024
        => loaded.cfg = defaultCfg

\* ------------------------------------- claims on the sweep and the lock
\* The map m with only the keys of S.
Restricted(m, S) ==
    [a \in S |-> m[a]]

\* The sweep has visited every key of the map: the pass is over, s.Unlock()
\* is next.
PassOver ==
    sw.pc = "range" /\ DOMAIN Entries \subseteq sw.visited

\* C21: a pass of the sweep leaves the mapping equal to the mapping it found
\* restricted to the entries with timestamp >= cutoff, the timestamps as they
\* were; during the pass the entries not yet visited are as the pass found
\* them.
C21_SweepExactness ==
    sw.pc = "range" =>
        /\ Entries =
               Restricted(sw.atLock,
                          {a \in DOMAIN sw.atLock :
                              a \notin sw.visited \/ sw.atLock[a] >= sw.cutoff})
        /\ PassOver =>
               Entries =
                   Restricted(sw.atLock,
                              {a \in DOMAIN sw.atLock : sw.atLock[a] >= sw.cutoff})

\* A pass that found an entry older than the cutoff and one that is not is
\* over: the first is gone, the second is there.
C21_Witness ==
    /\ PassOver
    /\ \E a, b \in DOMAIN sw.atLock :
          /\ sw.atLock[a] < sw.cutoff /\ a \notin DOMAIN Entries
          /\ sw.atLock[b] >= sw.cutoff /\ b \in DOMAIN Entries

\* C22: only the sweep removes an entry: in every step that is not an
\* iteration of the sweep's loop (a step of Report, of GetActive, of an HTTP
\* handler, of the clock) the key set of the mapping stays the same or grows.
C22_OnlySweepRemoves ==
    [][DOMAIN Entries \subseteq DOMAIN Entries' \/ SweepRange \/ CleanupPass]_vars

\* GetActive has left out an entry older than the cutoff and a Report for
\* another address has written in this tick; the old entry is still in the
\* mapping.
C22_Witness ==
    \E g \in Readers : \E a, b \in Addrs :
        /\ Returned(g)
        /\ StaleEntry(a) /\ a \notin Result(g)
        /\ b # a /\ lastReport[b] = now /\ lastReport[a] < now

\* The mapping is as the last pass of the sweep left it: nothing has been
\* reported since, or nothing that changed it.
AsLeft ==
    Entries = Swept(sw.atLock, sw.cutoff)

\* C23 as stated: a pass of the sweep that starts on the mapping the pass
\* before it left, no Report having changed it in between, leaves the mapping
\* as it found it.
C23_SweepIdempotence ==
    [][CleanupPass /\ AsLeft => Entries' = Entries]_vars

\* C23, amended: it leaves the mapping as it found it when its cutoff is the
\* cutoff of the pass before, the clock not having moved into a later second
\* between the two.
C23_IdempotentAtSameCutoff ==
    [][CleanupPass /\ AsLeft /\ Unix(now - Config.StaleTimeout) = sw.cutoff
           => Entries' = Entries]_vars

\* A pass has deleted an entry and kept another, nothing has changed since
\* and the clock is in the same second: the next pass is the second of two
\* runs in succession.
C23_Witness ==
    /\ AsLeft
    /\ Unix(now - Config.StaleTimeout) = sw.cutoff
    /\ Entries # EmptyMap
    /\ DOMAIN Entries # DOMAIN sw.atLock

\* The cutoff both GetActive and the sweep compute at the clock value now.
CutoffNow ==
    Unix(now - Config.StaleTimeout)

\* C24: at any clock value, GetActive leaves out a registration if and only
\* if a sweep at that clock value would delete it, and GetActive returns the
\* same list on the mapping as it is and on the mapping a sweep at that clock
\* value would leave.
C24_SnapshotSweepAgree ==
    /\ \A list \in GetActive(Config, Entries, now) :
           \A a \in DOMAIN Entries \ Range(Config.OfficialServers) :
               a \notin Range(list) <=> a \notin DOMAIN Swept(Entries, CutoffNow)
    /\ GetActive(Config, Entries, now)
           = GetActive(Config, Swept(Entries, CutoffNow), now)

\* /servers.txt has been served from a mapping that holds an entry older than
\* the cutoff, not swept yet: the body is the list the swept mapping gives.
C24_Witness ==
    /\ last.endpoint = "/servers.txt"
    /\ last.status = 200
    /\ \E a \in DOMAIN Entries : Entries[a] < CutoffNow
    /\ last.body \in
           {Join(list, Newline) :
               list \in GetActive(Config, Swept(Entries, CutoffNow), now)}

\* C25: the timestamp of an address never decreases: in every step in which
\* an address is an entry before and after, its timestamp after is not
\* smaller than before, however the Reports are interleaved.
C25_TimestampsNeverDecrease ==
    [][\A a \in DOMAIN Entries \cap DOMAIN Entries' : Entries'[a] >= Entries[a]]_vars

\* An address has been reported again in a later second, and a third Report
\* for it is waiting for the lock.
C25_Witness ==
    \E a \in Addrs : \E r \in Reporters :
        /\ life[a] = "refreshed"
        /\ a \in DOMAIN Entries /\ Entries[a] > 0
        /\ rep[r].pc = "lock" /\ rep[r].addr = a

\* C26: no timestamp lies in the future: every entry of the mapping has a
\* timestamp <= the current second of the clock.
C26_NoFutureTimestamp ==
    \A a \in DOMAIN Entries : Entries[a] <= Unix(now)

\* The mapping holds an entry written in the current second and an older one.
C26_Witness ==
    \E a, b \in DOMAIN Entries :
        Entries[a] = Unix(now) /\ Entries[b] < Unix(now)

\* The goroutines between their s.Lock() and their s.Unlock(), where Report
\* writes Entries and GetActive and the sweep read it.
InCritical ==
    {r \in Reporters : rep[r].pc = "write"}
    \cup {g \in Readers : rd[g].pc \in {"range", "ret"}}
    \cup (IF sw.pc = "range" THEN {Sweeper} ELSE {})

Writes(r) ==
    rep[r].pc = "write" /\ rep'[r].pc = "idle"

\* C28: when a Report writes while another Report for the same address is
\* waiting for the lock, the address has one entry, stamped by the writer; and
\* after every step the timestamp of each entry is the one written by the
\* Report for its address that took the lock last.
C28_SameKeyRace ==
    [][/\ \A r, q \in Reporters :
             (/\ Writes(r)
              /\ q # r /\ rep[q].pc = "lock" /\ rep[q].addr = rep[r].addr)
             => /\ DOMAIN Entries' = DOMAIN Entries \cup {rep[r].addr}
                /\ Entries'[rep[r].addr] = Unix(now)
       /\ \A a \in DOMAIN Entries' : Entries'[a] = Unix(lastReport'[a])]_vars

\* Two Reports for the same address are in flight, one holding the lock and
\* one waiting for it; the address has an entry from an earlier second.
C28_Witness ==
    \E r, q \in Reporters :
        /\ rep[r].pc = "write" /\ rep[q].pc = "lock"
        /\ rep[q].addr = rep[r].addr
        /\ rep[r].addr \in DOMAIN Entries
        /\ Entries[rep[r].addr] < Unix(now)

\* C29: under fair scheduling every Report call and every GetActive call that
\* has started returns, and the lock, once taken by a Report, a GetActive call
\* or a pass of the sweep, is released.
C29_NoIndefiniteBlocking ==
    /\ \A r \in Reporters : (rep[r].pc # "idle") ~> (rep[r].pc = "idle")
    /\ \A g \in Readers : (rd[g].pc # "idle") ~> (rd[g].pc = "idle")
    /\ (mutex # NoOne) ~> (mutex = NoOne)

\* A GetActive call holds the lock while both Reports and a pass of the sweep
\* wait for it.
C29_Witness ==
    /\ \E g \in Readers : mutex = g /\ rd[g].pc = "range"
    /\ \A r \in Reporters : rep[r].pc = "lock"
    /\ sw.pc = "lock"

\* Reader g takes a step of its GetActive call.
Reads(g) ==
    rd'[g] # rd[g]

\* C30: no step of a GetActive call changes the registration mapping or the
\* official list, and from the moment the call holds the lock until it returns
\* the mapping is the one it found, keys and timestamps, stale entries
\* included.
C30_SnapshotReadOnly ==
    [][\A g \in Readers :
         /\ Reads(g) => Entries' = Entries /\ Config' = Config
         /\ rd'[g].pc \in {"range", "ret"} => Entries' = rd'[g].atLock]_vars

\* A GetActive call has built its list: the mapping still holds an entry older
\* than the call's cutoff, which the list leaves out, and the official list is
\* not empty.
C30_Witness ==
    \E g \in Readers :
        /\ Returned(g)
        /\ Official # {}
        /\ \E a \in DOMAIN Entries :
              /\ Entries[a] < rd[g].cutoff
              /\ a \notin Result(g)

\* ------------------------------------- claims on races and frames
\* The addresses reader g's loop keeps in this step.
KeptNow(g) ==
    rd'[g].activeMap \ rd[g].activeMap

\* C31: every registration GetActive keeps is, at the instant the loop reads
\* it, no older than StaleTimeout: its timestamp is at least the cutoff of the
\* clock value at that instant.
C31_NeverReturnsStale ==
    [][\A g \in Readers : \A a \in KeptNow(g) :
         Entries[a] >= Unix(now - Config.StaleTimeout)]_vars

\* C32: every entry a step deletes was written more than StaleTimeout before
\* the instant of the deletion, whatever Reports and clock steps came between
\* the sweep's reading of the clock and its taking the lock.
C32_NeverDeletesFresh ==
    [][\A a \in DOMAIN Entries \ DOMAIN Entries' :
         now - lastReport[a] > Config.StaleTimeout]_vars

\* A pass has deleted one address and kept another, which a Report refreshed
\* in the tick the pass runs in.
C32_Witness ==
    /\ sw.pc = "range"
    /\ \E a \in DOMAIN sw.atLock \ DOMAIN Entries : life[a] = "swept"
    /\ \E b \in DOMAIN Entries \cap sw.visited :
          /\ life[b] = "refreshed" /\ lastReport[b] = now
          /\ Entries[b] >= sw.cutoff

\* C33: the step in which a Report writes sets the entry of its own key, the
\* "ip:port" of its arguments, to the current second and leaves every other
\* entry and the configuration as they were; the other steps of a Report
\* change neither the mapping nor the configuration.
C33_ReportOwnKeyOnly ==
    [][\A r \in Reporters :
         /\ Writes(r) =>
              /\ rep[r].addr \in {Sprintf(arg[1], arg[2]) : arg \in ReportArgs}
              /\ DOMAIN Entries' = DOMAIN Entries \cup {rep[r].addr}
              /\ Entries'[rep[r].addr] = Unix(now)
              /\ \A a \in DOMAIN Entries \ {rep[r].addr} : Entries'[a] = Entries[a]
              /\ Config' = Config
         /\ (rep'[r] # rep[r] /\ ~Writes(r)) =>
              Entries' = Entries /\ Config' = Config]_vars

\* A Report has refreshed its address in this tick; the mapping holds another
\* address with the older timestamp it had, and there are official servers.
C33_Witness ==
    \E a, b \in DOMAIN Entries :
        /\ a # b
        /\ life[a] = "refreshed" /\ lastReport[a] = now
        /\ Entries[a] = Unix(now)
        /\ Entries[b] < Entries[a] /\ Entries[b] = Unix(lastReport[b])
        /\ Official # {}

\* The limiter's history of the client ip alone.
HistoryOf(m, ip) ==
    [k \in DOMAIN m \cap {ip} |-> m[k]]

\* C34: a request answered 429 does not call Report and leaves the mapping as
\* it was, and adds no entry to the limiter's history of any client; whether a
\* request is answered 429 is decided by its own client's history alone, and a
\* request leaves the history of every other client as it was.
C34_RateLimitedNoEffect ==
    [][(now' = now) =>
         LET ip == SplitOf[last'.req.remoteAddr].host IN
             /\ last'.status = 429 =>
                  /\ Entries' = Entries /\ ~last'.reported
                  /\ DOMAIN rateLimitMap' = DOMAIN rateLimitMap
                  /\ \A k \in DOMAIN rateLimitMap : \A minute \in 0..Minute(now) :
                        CountIn(rateLimitMap'[k], minute)
                            <= CountIn(rateLimitMap[k], minute)
             /\ (last'.status = 429) =
                  (securityMiddleware(last'.req.remoteAddr,
                                      HistoryOf(rateLimitMap, ip), now).status = 429)
             /\ \A k \in DOMAIN rateLimitMap \ {ip} :
                  k \in DOMAIN rateLimitMap' /\ rateLimitMap'[k] = rateLimitMap[k]]_vars

\* 127.0.0.1 has had its 60 requests of the minute and ::1 has had one; a
\* request of 127.0.0.1 that would have registered "127.0.0.1:1024" is
\* answered 429, and the mapping does not hold that address.
C34_Witness ==
    /\ last.endpoint = "/report.php" /\ last.status = 429
    /\ last.req.remoteAddr = RemoteA
    /\ AtoiOf[last.req.port].ok /\ PortInRange(AtoiOf[last.req.port].n)
    /\ Sprintf(IpA, AtoiOf[last.req.port].n) \notin DOMAIN Entries
    /\ CountIn(rateLimitMap[IpA], Minute(now)) = maxRequestsPerMinute
    /\ Ip6 \in DOMAIN rateLimitMap

\* C35: once main has received the signal and is shutting down, cleanupLoop
\* starts no pass and deletes nothing.
C35_SweepStopsAtShutdown ==
    [][mainPc = "shutdown" => ~SweepTick /\ ~SweepRange]_vars

====
